---- MODULE Spec2Model ----
(***************************************************************************)
(* Buffer pool subsystem of bustub: the extendible hash table used as the  *)
(* page table, the LRU-K replacer, and the buffer pool manager instance    *)
(* that composes them with the disk manager.                               *)
(***************************************************************************)
EXTENDS Integers, Sequences, FiniteSets, TLC

\* ------------------------------------------------------------------ bounds
\* Number of frames of the pool (constructor argument pool_size).
PoolSize == 2
\* Page ids range over 0 .. MaxPageId; AllocatePage stops there.
MaxPageId == 1
\* Largest pin_count a frame is driven to.
MaxPin == 2

\* --------------------------------------------------------------- constants
INVALID_PAGE_ID == -1
\* Capacity of a bucket of the page table (bucket_size_).
BucketSize == 2
\* ExtendibleHashTable::Insert gives up after this many rounds.
InsertRounds == 5

Frames == 0 .. (PoolSize - 1)
PageIds == 0 .. MaxPageId

\* Frame bytes are abstracted to two values: the zeroed buffer (ResetMemory)
\* and a buffer the caller has edited.
ZeroData == "zero"
EditedData == "edited"

\* ============================================================ hash table
Hash(key) == key

Pow2(n) == 2 ^ n

\* (x & m) # 0 for m a power of two.
BitSet(x, m) == (x \div m) % 2 = 1

IndexOf(t, key) == Hash(key) % Pow2(t.global_depth)

NewTable ==
  [global_depth |-> 0, num_buckets |-> 1, dir |-> <<1>>,
   buckets |-> <<[depth |-> 0, list |-> <<>>]>>]

IsFull(b) == Len(b.list) = BucketSize

BucketHas(b, key) == \E i \in 1 .. Len(b.list) : b.list[i].key = key

BucketFind(b, key) ==
  IF BucketHas(b, key)
  THEN LET i == CHOOSE j \in 1 .. Len(b.list) :
                  /\ b.list[j].key = key
                  /\ \A h \in 1 .. (j - 1) : b.list[h].key # key
       IN [found |-> TRUE, value |-> b.list[i].value]
  ELSE [found |-> FALSE, value |-> -1]

\* Erases the first pair with this key.
BucketRemove(b, key) ==
  IF BucketHas(b, key)
  THEN LET i == CHOOSE j \in 1 .. Len(b.list) :
                  /\ b.list[j].key = key
                  /\ \A h \in 1 .. (j - 1) : b.list[h].key # key
       IN [b EXCEPT !.list = SubSeq(@, 1, i - 1) \o SubSeq(@, i + 1, Len(@))]
  ELSE b

\* A full bucket refuses the call, also when the key is already in it.
BucketInsert(b, key, value) ==
  IF IsFull(b) THEN b
  ELSE IF BucketHas(b, key)
  THEN LET i == CHOOSE j \in 1 .. Len(b.list) :
                  /\ b.list[j].key = key
                  /\ \A h \in 1 .. (j - 1) : b.list[h].key # key
       IN [b EXCEPT !.list[i] = [key |-> key, value |-> value]]
  ELSE [b EXCEPT !.list = Append(@, [key |-> key, value |-> value])]

Find(t, key) == BucketFind(t.buckets[t.dir[IndexOf(t, key) + 1]], key)

Remove(t, key) ==
  LET b == t.dir[IndexOf(t, key) + 1]
  IN [t EXCEPT !.buckets[b] = BucketRemove(@, key)]

RECURSIVE InsertAll(_, _)
\* new_bucket->Insert for each pair of a sequence, in order.
InsertAll(b, items) ==
  IF items = <<>> THEN b
  ELSE InsertAll(BucketInsert(b, Head(items).key, Head(items).value), Tail(items))

RECURSIVE RemoveAll(_, _)
RemoveAll(b, items) ==
  IF items = <<>> THEN b
  ELSE RemoveAll(BucketRemove(b, Head(items).key), Tail(items))

\* A split that forgets num_buckets_++.
SplitWithoutCount(t, idx) ==
  LET b == t.dir[idx + 1]
      cur == t.buckets[b]
      mask == Pow2(cur.depth)
      global == t.global_depth
      grown == cur.depth >= global
      gd == IF grown THEN global + 1 ELSE global
      dir1 == IF grown THEN t.dir \o SubSeq(t.dir, 1, Pow2(global)) ELSE t.dir
      nb == Len(t.buckets) + 1
      dir2 == [i \in 1 .. Len(dir1) |->
                 IF i <= Pow2(gd) /\ dir1[i] = b /\ BitSet(i - 1, mask)
                 THEN nb ELSE dir1[i]]
      moved == SelectSeq(cur.list, LAMBDA kv : BitSet(Hash(kv.key), mask))
      newb == InsertAll([depth |-> cur.depth + 1, list |-> <<>>], moved)
      oldb == RemoveAll([cur EXCEPT !.depth = @ + 1], moved)
  IN [global_depth |-> gd,
      num_buckets |-> t.num_buckets,
      dir |-> dir2,
      buckets |-> Append([t.buckets EXCEPT ![b] = oldb], newb)]

\* A split that tells the two halves apart by the bit of the global depth
\* instead of the bit of the bucket's own depth.
SplitByGlobalDepth(t, idx) ==
  LET b == t.dir[idx + 1]
      cur == t.buckets[b]
      global == t.global_depth
      mask == Pow2(global)
      grown == cur.depth >= global
      gd == IF grown THEN global + 1 ELSE global
      dir1 == IF grown THEN t.dir \o SubSeq(t.dir, 1, Pow2(global)) ELSE t.dir
      nb == Len(t.buckets) + 1
      dir2 == [i \in 1 .. Len(dir1) |->
                 IF i <= Pow2(gd) /\ dir1[i] = b /\ BitSet(i - 1, mask)
                 THEN nb ELSE dir1[i]]
      moved == SelectSeq(cur.list, LAMBDA kv : BitSet(Hash(kv.key), mask))
      newb == InsertAll([depth |-> cur.depth + 1, list |-> <<>>], moved)
      oldb == RemoveAll([cur EXCEPT !.depth = @ + 1], moved)
  IN [global_depth |-> gd,
      num_buckets |-> t.num_buckets + 1,
      dir |-> dir2,
      buckets |-> Append([t.buckets EXCEPT ![b] = oldb], newb)]

\* One round of step 2 of Insert: double the directory when the bucket's
\* depth has reached the global depth, then split the bucket of slot idx.
Split(t, idx) ==
  LET b == t.dir[idx + 1]
      cur == t.buckets[b]
      mask == Pow2(cur.depth)
      global == t.global_depth
      grown == cur.depth >= global
      gd == IF grown THEN global + 1 ELSE global
      dir1 == IF grown THEN t.dir \o SubSeq(t.dir, 1, Pow2(global)) ELSE t.dir
      nb == Len(t.buckets) + 1
      dir2 == [i \in 1 .. Len(dir1) |->
                 IF i <= Pow2(gd) /\ dir1[i] = b /\ BitSet(i - 1, mask)
                 THEN nb ELSE dir1[i]]
      moved == SelectSeq(cur.list, LAMBDA kv : BitSet(Hash(kv.key), mask))
      newb == InsertAll([depth |-> cur.depth + 1, list |-> <<>>], moved)
      oldb == RemoveAll([cur EXCEPT !.depth = @ + 1], moved)
  IN [global_depth |-> gd,
      num_buckets |-> t.num_buckets + 1,
      dir |-> dir2,
      buckets |-> Append([t.buckets EXCEPT ![b] = oldb], newb)]

RECURSIVE InsertLoop(_, _, _, _)
InsertLoop(t, key, value, ii) ==
  IF ii >= InsertRounds THEN t
  ELSE LET idx == IndexOf(t, key)
           b == t.dir[idx + 1]
           cur == t.buckets[b]
       IN IF BucketHas(cur, key) \/ ~IsFull(cur)
          THEN [t EXCEPT !.buckets[b] = BucketInsert(cur, key, value)]
          ELSE InsertLoop(Split(t, idx), key, value, ii + 1)

Insert(t, key, value) == InsertLoop(t, key, value, 0)

\* ============================================================== replacer
\* The doubly linked list between page_head_ and page_tail_ as a sequence,
\* head side first; page_map_ is the set of values of its nodes.
NewReplacer == [list |-> <<>>, curr_size |-> 0, evictable_size |-> 0]

Tracked(r, frame_id) == \E i \in 1 .. Len(r.list) : r.list[i].value = frame_id

NodeIndex(r, frame_id) == CHOOSE i \in 1 .. Len(r.list) : r.list[i].value = frame_id

\* The replacer with its two parameters, as its constructor leaves it.
LRUKReplacer(num_frames, k) ==
  [list |-> <<>>, curr_size |-> 0, evictable_size |-> 0,
   replacer_size |-> num_frames, k |-> k]

\* An eviction scan that starts at the head of the list.
EvictFromHead(r) ==
  LET cands == { i \in 1 .. Len(r.list) : r.list[i].is_evictable }
  IN IF r.curr_size <= 0 \/ r.evictable_size <= 0 \/ cands = {}
     THEN [ok |-> FALSE, frame |-> -1, r |-> r]
     ELSE LET i == CHOOSE j \in cands : \A h \in cands : h >= j
          IN [ok |-> TRUE, frame |-> r.list[i].value,
              r |-> [r EXCEPT
                       !.list = SubSeq(@, 1, i - 1) \o SubSeq(@, i + 1, Len(@)),
                       !.curr_size = @ - 1,
                       !.evictable_size = @ - 1]]

Evict(r) ==
  LET cands == { i \in 1 .. Len(r.list) : r.list[i].is_evictable }
  IN IF r.curr_size <= 0 \/ r.evictable_size <= 0 \/ cands = {}
     THEN [ok |-> FALSE, frame |-> -1, r |-> r]
     ELSE LET i == CHOOSE j \in cands : \A h \in cands : h <= j
          IN [ok |-> TRUE, frame |-> r.list[i].value,
              r |-> [r EXCEPT
                       !.list = SubSeq(@, 1, i - 1) \o SubSeq(@, i + 1, Len(@)),
                       !.curr_size = @ - 1,
                       !.evictable_size = @ - 1]]

\* SetEvictable that starts tracking a frame it does not know.
SetEvictableTracking(r, frame_id, set_evictable) ==
  IF Tracked(r, frame_id)
  THEN LET i == NodeIndex(r, frame_id)
       IN IF r.list[i].is_evictable /\ ~set_evictable
          THEN [r EXCEPT !.evictable_size = @ - 1, !.list[i].is_evictable = FALSE]
          ELSE IF ~r.list[i].is_evictable /\ set_evictable
          THEN [r EXCEPT !.evictable_size = @ + 1, !.list[i].is_evictable = TRUE]
          ELSE r
  ELSE [list |-> Append(r.list, [value |-> frame_id, visit |-> 1,
                                 is_evictable |-> set_evictable]),
        curr_size |-> r.curr_size + 1,
        evictable_size |-> r.evictable_size + (IF set_evictable THEN 1 ELSE 0)]

SetEvictable(r, frame_id, set_evictable) ==
  IF Tracked(r, frame_id)
  THEN LET i == NodeIndex(r, frame_id)
       IN IF r.list[i].is_evictable /\ ~set_evictable
          THEN [r EXCEPT !.evictable_size = @ - 1, !.list[i].is_evictable = FALSE]
          ELSE IF ~r.list[i].is_evictable /\ set_evictable
          THEN [r EXCEPT !.evictable_size = @ + 1, !.list[i].is_evictable = TRUE]
          ELSE r
  ELSE r

\* A node as PNode(frame_id) constructs it: one access, not evictable.
NewNode(frame_id) == [value |-> frame_id, visit |-> 1, is_evictable |-> FALSE]

RECURSIVE Walk(_, _, _)
\* The loop of RecordAccess over a list the node has been unlinked from:
\* p is the position of pre_node (0 for page_head_) and visit is tmp->visit_.
\* tmp becomes pre_node on every turn, so the next comparison is made with
\* the node just passed, not with the node being moved.
Walk(list, p, visit) ==
  IF p # 0 /\ visit >= list[p].visit
  THEN Walk(list, p - 1, list[p].visit)
  ELSE p

\* The position of pos once the loop over visit_ > 1 ends: Len(list) + 1 is
\* page_tail_.
FirstOnce(list) ==
  IF \E i \in 1 .. Len(list) : list[i].visit <= 1
  THEN CHOOSE i \in 1 .. Len(list) :
         /\ list[i].visit <= 1
         /\ \A h \in 1 .. (i - 1) : list[h].visit > 1
  ELSE Len(list) + 1

InsertAt(list, pos, node) ==
  SubSeq(list, 1, pos - 1) \o <<node>> \o SubSeq(list, pos, Len(list))

\* RecordAccess that links a new node right behind page_head_.
RecordAccessAtHead(r, frame_id) ==
  IF Tracked(r, frame_id)
  THEN LET i == NodeIndex(r, frame_id)
           cur == [r.list[i] EXCEPT !.visit = IF @ < r.k THEN @ + 1 ELSE @]
           rest == SubSeq(r.list, 1, i - 1) \o SubSeq(r.list, i + 1, Len(r.list))
           p == Walk(rest, i - 1, cur.visit)
       IN [r EXCEPT !.list = InsertAt(rest, p + 1, cur)]
  ELSE IF r.curr_size >= r.replacer_size THEN r
  ELSE [r EXCEPT !.list = InsertAt(@, 1, NewNode(frame_id)),
                 !.curr_size = @ + 1,
                 !.evictable_size = @ + 1]

\* RecordAccess that counts the access of a tracked frame and leaves its
\* node where it is.
RecordAccessInPlace(r, frame_id) ==
  IF Tracked(r, frame_id)
  THEN LET i == NodeIndex(r, frame_id)
       IN [r EXCEPT !.list[i].visit = IF @ < r.k THEN @ + 1 ELSE @]
  ELSE IF r.curr_size >= r.replacer_size THEN r
  ELSE [r EXCEPT !.list = InsertAt(@, FirstOnce(@), NewNode(frame_id)),
                 !.curr_size = @ + 1,
                 !.evictable_size = @ + 1]

RecordAccess(r, frame_id) ==
  IF Tracked(r, frame_id)
  THEN LET i == NodeIndex(r, frame_id)
           cur == [r.list[i] EXCEPT !.visit = IF @ < r.k THEN @ + 1 ELSE @]
           rest == SubSeq(r.list, 1, i - 1) \o SubSeq(r.list, i + 1, Len(r.list))
           p == Walk(rest, i - 1, cur.visit)
       IN [r EXCEPT !.list = InsertAt(rest, p + 1, cur)]
  ELSE IF r.curr_size >= r.replacer_size THEN r
  ELSE [r EXCEPT !.list = InsertAt(@, FirstOnce(@), NewNode(frame_id)),
                 !.curr_size = @ + 1,
                 !.evictable_size = @ + 1]

\* LRUKReplacer::Remove.
RemoveFrame(r, frame_id) ==
  IF Tracked(r, frame_id)
  THEN LET i == NodeIndex(r, frame_id)
       IN IF ~r.list[i].is_evictable THEN r
          ELSE [r EXCEPT
                  !.list = SubSeq(@, 1, i - 1) \o SubSeq(@, i + 1, Len(@)),
                  !.curr_size = @ - 1,
                  !.evictable_size = @ - 1]
  ELSE r

Size(r) == r.evictable_size

\* =================================================== buffer pool manager
\* ret is what the last call returned: its name, its page id (the id NewPgImp
\* allocated), its boolean or non-null result, the frame it worked on and the
\* disk writes it issued.  owed is the set of pages some unpin declared dirty
\* and no disk write has covered since.  ref is the reference a component is
\* compared with when it is driven on its own (the dictionary a hash table
\* stands for, the access history of a replacer); the pool leaves it alone.
\* pc and latch matter when threads call the hash table: pc[t] is the call
\* thread t is in and how far it has got, latch the thread that holds the
\* table's latch_ (0 when it is free).  Elsewhere calls are atomic and both
\* stay as they start.
VARIABLES pages, free_list, page_table, replacer, next_page_id, disk, ret, owed, ref,
          pc, latch

vars == <<pages, free_list, page_table, replacer, next_page_id, disk, ret, owed, ref,
          pc, latch>>

pool == <<pages, free_list, page_table, replacer, next_page_id, disk>>

\* The pool's state as one value, so that one operation can run another.
State ==
  [pages |-> pages, free_list |-> free_list, page_table |-> page_table,
   replacer |-> replacer, next_page_id |-> next_page_id, disk |-> disk]

EmptyPage ==
  [page_id |-> INVALID_PAGE_ID, pin_count |-> 0, is_dirty |-> FALSE, data |-> ZeroData]

ReadPage(d, page_id) == d[page_id]

WritePage(d, page_id, data) == [d EXCEPT ![page_id] = data]

Result(op, page, ok, frame, writes) ==
  [op |-> op, page |-> page, ok |-> ok, frame |-> frame, writes |-> writes]

Init ==
  /\ pages = [f \in Frames |-> EmptyPage]
  /\ free_list = [i \in 1 .. PoolSize |-> i - 1]
  /\ page_table = NewTable
  /\ replacer = NewReplacer
  /\ next_page_id = 0
  /\ disk = [p \in PageIds |-> ZeroData]
  /\ ret = Result("init", INVALID_PAGE_ID, TRUE, -1, <<>>)
  /\ owed = {}
  /\ ref = <<>>
  /\ pc = <<>>
  /\ latch = 0

\* Free list first, else the replacer's victim, written back when dirty and
\* taken out of the page table.
ObtainFrame(s) ==
  IF s.free_list # <<>>
  THEN [ok |-> TRUE, frame |-> Head(s.free_list), writes |-> <<>>,
        s |-> [s EXCEPT !.free_list = Tail(@)]]
  ELSE LET e == Evict(s.replacer)
       IN IF e.ok
          THEN LET pg == s.pages[e.frame]
               IN [ok |-> TRUE, frame |-> e.frame,
                   writes |-> IF pg.is_dirty
                              THEN <<[page |-> pg.page_id, data |-> pg.data]>>
                              ELSE <<>>,
                   s |-> [s EXCEPT
                            !.replacer = e.r,
                            !.disk = IF pg.is_dirty
                                     THEN WritePage(@, pg.page_id, pg.data) ELSE @,
                            !.page_table = Remove(@, pg.page_id)]]
          ELSE [ok |-> FALSE, frame |-> -1, writes |-> <<>>, s |-> s]

NewPgImp(s) ==
  LET o == ObtainFrame(s)
      page_id == s.next_page_id
  IN IF ~o.ok
     THEN [s |-> s, ret |-> Result("new_page", INVALID_PAGE_ID, FALSE, -1, <<>>)]
     ELSE [s |-> [o.s EXCEPT
                    !.next_page_id = @ + 1,
                    !.pages[o.frame] = [page_id |-> page_id, pin_count |-> 1,
                                        is_dirty |-> FALSE, data |-> ZeroData],
                    !.replacer = SetEvictable(@, o.frame, FALSE),
                    !.page_table = Insert(@, page_id, o.frame)],
           ret |-> Result("new_page", page_id, TRUE, o.frame, o.writes)]

FetchPgImp(s, page_id) ==
  LET hit == Find(s.page_table, page_id)
  IN IF hit.found
     THEN [s |-> [s EXCEPT !.pages[hit.value].pin_count = @ + 1,
                           !.replacer = SetEvictable(@, hit.value, FALSE)],
           ret |-> Result("fetch_hit", page_id, TRUE, hit.value, <<>>)]
     ELSE LET o == ObtainFrame(s)
          IN IF ~o.ok
             THEN [s |-> s, ret |-> Result("fetch_miss", page_id, FALSE, -1, <<>>)]
             ELSE [s |-> [o.s EXCEPT
                            !.pages[o.frame] =
                               [page_id |-> page_id, pin_count |-> 1,
                                is_dirty |-> FALSE,
                                data |-> ReadPage(o.s.disk, page_id)],
                            !.page_table = Insert(@, page_id, o.frame),
                            !.replacer = SetEvictable(@, o.frame, FALSE)],
                   ret |-> Result("fetch_miss", page_id, TRUE, o.frame, o.writes)]

\* UnpinPgImp without the test of pin_count_ <= 0.
UnpinPgImpUnchecked(s, page_id, is_dirty) ==
  LET hit == Find(s.page_table, page_id)
  IN IF ~hit.found
     THEN [s |-> s, ret |-> Result("unpin", page_id, FALSE, -1, <<>>)]
     ELSE [s |-> [s EXCEPT !.pages[hit.value].pin_count = @ - 1,
                           !.pages[hit.value].is_dirty = is_dirty,
                           !.replacer = SetEvictable(@, hit.value, TRUE)],
           ret |-> Result("unpin", page_id, TRUE, hit.value, <<>>)]

UnpinPgImp(s, page_id, is_dirty) ==
  LET hit == Find(s.page_table, page_id)
  IN IF ~hit.found
     THEN [s |-> s, ret |-> Result("unpin", page_id, FALSE, -1, <<>>)]
     ELSE IF s.pages[hit.value].pin_count <= 0
     THEN [s |-> s, ret |-> Result("unpin", page_id, FALSE, hit.value, <<>>)]
     ELSE [s |-> [s EXCEPT !.pages[hit.value].pin_count = @ - 1,
                           !.pages[hit.value].is_dirty = is_dirty,
                           !.replacer = SetEvictable(@, hit.value, TRUE)],
           ret |-> Result("unpin", page_id, TRUE, hit.value, <<>>)]

FlushPgImp(s, page_id) ==
  LET hit == Find(s.page_table, page_id)
  IN IF page_id # INVALID_PAGE_ID /\ hit.found
     THEN LET pg == s.pages[hit.value]
          IN IF pg.is_dirty
             THEN [s |-> [s EXCEPT !.disk = WritePage(@, pg.page_id, pg.data),
                                   !.pages[hit.value].is_dirty = FALSE],
                   ret |-> Result("flush", page_id, TRUE, hit.value,
                                  <<[page |-> pg.page_id, data |-> pg.data]>>)]
             ELSE [s |-> s, ret |-> Result("flush", page_id, TRUE, hit.value, <<>>)]
     ELSE [s |-> s, ret |-> Result("flush", page_id, FALSE, -1, <<>>)]

RECURSIVE FetchEach(_, _, _)
\* FetchPgImp(page_idx) for page_idx = from .. total_page - 1.
FetchEach(s, from, total_page) ==
  IF from >= total_page THEN s
  ELSE FetchEach(FetchPgImp(s, from).s, from + 1, total_page)

\* Run with no other caller between its calls of FetchPgImp.
FlushAllPgsImp(s) ==
  [s |-> FetchEach(s, 0, s.next_page_id),
   ret |-> Result("flush_all", INVALID_PAGE_ID, TRUE, -1, <<>>)]

\* DeletePgImp without the test of pin_count_ > 0.
DeletePgImpUnchecked(s, page_id) ==
  LET hit == Find(s.page_table, page_id)
  IN IF hit.found
     THEN [s |-> [s EXCEPT
                    !.page_table = Remove(@, page_id),
                    !.replacer = SetEvictable(@, hit.value, FALSE),
                    !.free_list = Append(@, hit.value),
                    !.pages[hit.value] = EmptyPage],
           ret |-> Result("delete", page_id, TRUE, hit.value, <<>>)]
     ELSE [s |-> s, ret |-> Result("delete", page_id, TRUE, -1, <<>>)]

DeletePgImp(s, page_id) ==
  LET hit == Find(s.page_table, page_id)
  IN IF hit.found
     THEN IF s.pages[hit.value].pin_count > 0
          THEN [s |-> s, ret |-> Result("delete", page_id, FALSE, hit.value, <<>>)]
          ELSE [s |-> [s EXCEPT
                         !.page_table = Remove(@, page_id),
                         !.replacer = SetEvictable(@, hit.value, FALSE),
                         !.free_list = Append(@, hit.value),
                         !.pages[hit.value] = EmptyPage],
                ret |-> Result("delete", page_id, TRUE, hit.value, <<>>)]
     ELSE [s |-> s, ret |-> Result("delete", page_id, TRUE, -1, <<>>)]

Written(writes) == { writes[i].page : i \in 1 .. Len(writes) }

\* The next state is what the call left, within the bound on pin counts.
Becomes(r) ==
  /\ \A f \in Frames : r.s.pages[f].pin_count <= MaxPin
  /\ pages' = r.s.pages
  /\ free_list' = r.s.free_list
  /\ page_table' = r.s.page_table
  /\ replacer' = r.s.replacer
  /\ next_page_id' = r.s.next_page_id
  /\ disk' = r.s.disk
  /\ ret' = r.ret
  /\ ref' = ref
  /\ UNCHANGED <<pc, latch>>

NewPage ==
  /\ next_page_id <= MaxPageId
  /\ Becomes(NewPgImp(State))
  /\ owed' = owed \ Written(ret'.writes)

FetchPage(page_id) ==
  /\ Becomes(FetchPgImp(State, page_id))
  /\ owed' = owed \ Written(ret'.writes)

UnpinPage(page_id, is_dirty) ==
  /\ Becomes(UnpinPgImp(State, page_id, is_dirty))
  /\ owed' = IF ret'.ok /\ is_dirty THEN owed \cup {page_id} ELSE owed

FlushPage(page_id) ==
  /\ Becomes(FlushPgImp(State, page_id))
  /\ owed' = owed \ Written(ret'.writes)

FlushAllPages ==
  /\ Becomes(FlushAllPgsImp(State))
  /\ owed' = owed

\* A deleted page's bytes are given up with it.
DeletePage(page_id) ==
  /\ Becomes(DeletePgImp(State, page_id))
  /\ owed' = IF ret'.ok THEN owed \ {page_id} ELSE owed

\* A caller holding a pin edits the bytes of its frame.
CallerWrite(f) ==
  /\ pages[f].pin_count > 0
  /\ pages[f].page_id # INVALID_PAGE_ID
  /\ pages' = [pages EXCEPT ![f].data = EditedData]
  /\ ret' = Result("write", pages[f].page_id, TRUE, f, <<>>)
  /\ UNCHANGED <<free_list, page_table, replacer, next_page_id, disk, owed, ref, pc, latch>>

Next ==
  \/ NewPage
  \/ \E p \in PageIds : FetchPage(p)
  \/ \E p \in PageIds, d \in BOOLEAN : UnpinPage(p, d)
  \/ \E p \in PageIds \cup {INVALID_PAGE_ID} : FlushPage(p)
  \/ FlushAllPages
  \/ \E p \in PageIds : DeletePage(p)
  \/ \E f \in Frames : CallerWrite(f)

Spec == Init /\ [][Next]_vars

\* ================================================= hash table on its own
\* The table driven directly by Insert, Remove and Find, with identity hash
\* and BucketSize pairs per bucket.  The keys collide in their low bits, so
\* that a full bucket is split several times over.  ref is the dictionary the
\* calls describe: per key the pair Find is expected to produce.
EhmKeys == {0, 1, 3, 5, 64, 128}

\* Values range over 0 .. MaxValue.
MaxValue == 1

\* The keys that are inserted with more than one value.
Rewritten == {0}

EhmValues(key) == IF key \in Rewritten THEN 0 .. MaxValue ELSE {0}

Absent == [found |-> FALSE, value |-> -1]

Present(value) == [found |-> TRUE, value |-> value]

\* The pool around the component stays as constructed.
PoolIdle ==
  /\ pages = [f \in Frames |-> EmptyPage]
  /\ free_list = [i \in 1 .. PoolSize |-> i - 1]
  /\ next_page_id = 0
  /\ disk = [p \in PageIds |-> ZeroData]
  /\ owed = {}

InitEHM ==
  /\ PoolIdle
  /\ pc = <<>>
  /\ latch = 0
  /\ replacer = NewReplacer
  /\ page_table = NewTable
  /\ ref = [key \in EhmKeys |-> Absent]
  /\ ret = [op |-> "init", key |-> -1, value |-> -1, result |-> Absent]

EhmInsert(key, value) ==
  /\ page_table' = Insert(page_table, key, value)
  /\ ref' = [ref EXCEPT ![key] = Present(value)]
  /\ ret' = [op |-> "insert", key |-> key, value |-> value, result |-> Absent]
  /\ UNCHANGED <<pages, free_list, replacer, next_page_id, disk, owed, pc, latch>>

EhmRemove(key) ==
  /\ page_table' = Remove(page_table, key)
  /\ ref' = [ref EXCEPT ![key] = Absent]
  /\ ret' = [op |-> "remove", key |-> key, value |-> -1,
             result |-> [found |-> Find(page_table, key).found, value |-> -1]]
  /\ UNCHANGED <<pages, free_list, replacer, next_page_id, disk, owed, pc, latch>>

EhmFind(key) ==
  /\ ret' = [op |-> "find", key |-> key, value |-> -1, result |-> Find(page_table, key)]
  /\ UNCHANGED <<pages, free_list, page_table, replacer, next_page_id, disk, owed, ref, pc, latch>>

NextEHM ==
  \/ \E key \in EhmKeys : \E value \in EhmValues(key) : EhmInsert(key, value)
  \/ \E key \in EhmKeys : EhmRemove(key)
  \/ \E key \in EhmKeys : EhmFind(key)

SpecEHM == InitEHM /\ [][NextEHM]_vars

\* ================================================ hash table, insert runs
\* A fresh table filled by up to MaxScript inserts of the keys of scenario
\* S4, in every order; ref is the sequence of keys inserted so far.
ScriptKeys == {0, 4, 16}

MaxScript == 3

InitScript ==
  /\ PoolIdle
  /\ pc = <<>>
  /\ latch = 0
  /\ replacer = NewReplacer
  /\ page_table = NewTable
  /\ ref = <<>>
  /\ ret = [op |-> "init", key |-> -1, value |-> -1, result |-> Absent]

ScriptInsert(key, value) ==
  /\ Len(ref) < MaxScript
  /\ page_table' = Insert(page_table, key, value)
  /\ ref' = Append(ref, key)
  /\ ret' = [op |-> "insert", key |-> key, value |-> value, result |-> Absent]
  /\ UNCHANGED <<pages, free_list, replacer, next_page_id, disk, owed, pc, latch>>

NextScript == \E key \in ScriptKeys, value \in 0 .. MaxValue : ScriptInsert(key, value)

SpecScript == InitScript /\ [][NextScript]_vars

\* =================================================== replacer on its own
\* The replacer driven directly, for every k of 1 .. MaxK.  ref keeps what a
\* reference LRU-K needs: hist[f] is the times of the accesses recorded for f
\* since it was last untracked, clock the time of the last access, and last
\* the history of the frame the last Evict or Remove took out.
\* Frames 0 .. ReplacerSize - 1 are handed to the replacer (num_frames).
ReplacerSize == 3

\* The replacer is built with every k of 1 .. MaxK.
MaxK == 3

\* Number of accesses recorded in one run.
MaxAccesses == 6

LkrFrames == 0 .. (ReplacerSize - 1)

InitLKR ==
  /\ PoolIdle
  /\ pc = <<>>
  /\ latch = 0
  /\ page_table = NewTable
  /\ \E k \in 1 .. MaxK : replacer = LRUKReplacer(ReplacerSize, k)
  /\ ref = [hist |-> [f \in LkrFrames |-> <<>>], clock |-> 0, last |-> <<>>]
  /\ ret = [op |-> "init", ok |-> TRUE, frame |-> -1]

Forget(frame_id) ==
  [ref EXCEPT !.hist[frame_id] = <<>>, !.last = ref.hist[frame_id]]

LkrRecordAccess(frame_id) ==
  /\ ref.clock < MaxAccesses
  /\ replacer' = RecordAccess(replacer, frame_id)
  /\ ref' = IF Tracked(replacer', frame_id)
            THEN [ref EXCEPT !.hist[frame_id] = Append(@, ref.clock + 1),
                             !.clock = @ + 1]
            ELSE ref
  /\ ret' = [op |-> "record_access", ok |-> TRUE, frame |-> frame_id]
  /\ UNCHANGED <<pages, free_list, page_table, next_page_id, disk, owed, pc, latch>>

LkrSetEvictable(frame_id, set_evictable) ==
  /\ replacer' = SetEvictable(replacer, frame_id, set_evictable)
  /\ ret' = [op |-> "set_evictable", ok |-> TRUE, frame |-> frame_id]
  /\ UNCHANGED <<pages, free_list, page_table, next_page_id, disk, owed, ref, pc, latch>>

LkrRemove(frame_id) ==
  /\ replacer' = RemoveFrame(replacer, frame_id)
  /\ ref' = IF Tracked(replacer, frame_id) /\ ~Tracked(replacer', frame_id)
            THEN Forget(frame_id) ELSE ref
  /\ ret' = [op |-> "remove", ok |-> TRUE, frame |-> frame_id]
  /\ UNCHANGED <<pages, free_list, page_table, next_page_id, disk, owed, pc, latch>>

LkrEvict ==
  LET e == Evict(replacer)
  IN /\ replacer' = e.r
     /\ ref' = IF e.ok THEN Forget(e.frame) ELSE ref
     /\ ret' = [op |-> "evict", ok |-> e.ok, frame |-> e.frame]
     /\ UNCHANGED <<pages, free_list, page_table, next_page_id, disk, owed, pc, latch>>

NextLKR ==
  \/ \E f \in LkrFrames : LkrRecordAccess(f)
  \/ \E f \in LkrFrames, b \in BOOLEAN : LkrSetEvictable(f, b)
  \/ \E f \in LkrFrames : LkrRemove(f)
  \/ LkrEvict

SpecLKR == InitLKR /\ [][NextLKR]_vars

\* ================================================================ claims
Valid(f) == pages[f].page_id # INVALID_PAGE_ID

Mapped(page_id) == Find(page_table, page_id).found

\* The (key, value) pairs stored anywhere in the table.
Entries(t) ==
  UNION { { t.buckets[b].list[i] : i \in 1 .. Len(t.buckets[b].list) } :
          b \in 1 .. Len(t.buckets) }

\* C1. Uniqueness: no two frames of the pool hold the same valid page_id.
Uniqueness ==
  \A f, g \in Frames : (f # g /\ Valid(f)) => pages[f].page_id # pages[g].page_id

\* C2. Page-table consistency: every frame with a valid page_id is found in
\* the page table under that page_id with its own index, and every entry
\* (p -> f) of the page table has frame f holding page p.
PageTableConsistent ==
  /\ \A f \in Frames :
       Valid(f) => Find(page_table, pages[f].page_id) = [found |-> TRUE, value |-> f]
  /\ \A e \in Entries(page_table) : pages[e.value].page_id = e.key

\* C3. Capacity: new_page and the miss path of fetch_page return nothing only
\* when the free list is empty and every frame has pin_count > 0.
FailsOnlyWhenAllPinned ==
  [][(ret'.op \in {"new_page", "fetch_miss"} /\ ~ret'.ok)
       => (free_list = <<>> /\ \A f \in Frames : pages[f].pin_count > 0)]_vars

\* C4. Pin safety: the replacer never holds an evictable node for a frame
\* whose pin_count > 0, and new_page and fetch_page never give out a frame
\* whose pin_count was > 0.
EvictableUnpinned ==
  \A i \in 1 .. Len(replacer.list) :
     replacer.list[i].is_evictable => pages[replacer.list[i].value].pin_count = 0

PinSafety ==
  /\ []EvictableUnpinned
  /\ [][(ret'.op \in {"new_page", "fetch_miss"} /\ ret'.ok)
          => pages[ret'.frame].pin_count = 0]_vars

\* A page pinned twice and unpinned once: its frame is still pinned.
PinnedAfterPartialUnpin ==
  ret.op = "unpin" /\ ret.ok /\ pages[ret.frame].pin_count > 0

\* C5. No silent data loss: a page some unpin declared dirty has its frame's
\* bytes written by the first flush_page after that unpin, and by new_page or
\* fetch_page before they give its frame to another page.  Stated for the
\* calls made while the page has a single frame.
DirtyBytesReachDisk ==
  [][/\ (ret'.op = "flush" /\ ret'.ok /\ ret'.page \in owed /\ Uniqueness)
          => ret'.writes = <<[page |-> ret'.page, data |-> pages[ret'.frame].data]>>
     /\ (ret'.op \in {"new_page", "fetch_miss"} /\ ret'.ok
           /\ pages[ret'.frame].page_id \in owed)
          => ret'.writes = <<[page |-> pages[ret'.frame].page_id,
                              data |-> pages[ret'.frame].data]>>]_vars

\* C6. Sticky dirty flag: a successful unpin_page(p, d) leaves is_dirty equal
\* to (old is_dirty OR d).
StickyDirty ==
  [][\A p \in PageIds, d \in BOOLEAN :
       (UnpinPage(p, d) /\ ret'.ok)
         => pages'[ret'.frame].is_dirty = (pages[ret'.frame].is_dirty \/ d)]_vars

\* C7. flush_page on a mapped page writes the frame's bytes on every call,
\* dirty or not, and leaves is_dirty false.
FlushAlwaysWrites ==
  (ret.op = "flush" /\ ret.ok)
    => /\ ret.writes = <<[page |-> ret.page, data |-> pages[ret.frame].data]>>
       /\ ~pages[ret.frame].is_dirty

\* C8. When flush_all returns, every mapped frame has is_dirty false and the
\* disk copy of its page equals the frame's bytes.
FlushAllCleansPool ==
  ret.op = "flush_all"
    => \A f \in Frames :
         (Valid(f) /\ Mapped(pages[f].page_id))
           => (~pages[f].is_dirty /\ disk[pages[f].page_id] = pages[f].data)

\* C9. delete_page(p) returns true and changes nothing when p is not mapped,
\* returns false and changes nothing when p is mapped and pinned, and
\* otherwise returns true, takes p out of the page table, resets the frame
\* that held p and appends it to the free list, where it then stands once.
DeleteEffect(p) ==
  LET hit == Find(page_table, p)
      f == hit.value
  IN IF ~hit.found THEN ret'.ok /\ UNCHANGED pool
     ELSE IF pages[f].pin_count > 0 THEN ~ret'.ok /\ UNCHANGED pool
     ELSE /\ ret'.ok
          /\ pages[f].page_id = p
          /\ ~Find(page_table', p).found
          /\ Entries(page_table') = Entries(page_table) \ {[key |-> p, value |-> f]}
          /\ pages' = [pages EXCEPT ![f] = EmptyPage]
          /\ free_list' = Append(free_list, f)
          /\ Cardinality({i \in 1 .. Len(free_list') : free_list'[i] = f}) = 1
          /\ UNCHANGED <<next_page_id, disk>>

DeleteContract == [][\A p \in PageIds : DeletePage(p) => DeleteEffect(p)]_vars

\* delete_page has just freed the frame of an unpinned page.
DeletedFrameFreed ==
  /\ ret.op = "delete" /\ ret.ok /\ ret.frame # -1
  /\ free_list # <<>> /\ free_list[Len(free_list)] = ret.frame

\* C10. unpin_page(p, d) returns false and changes nothing when p is not
\* mapped or its frame's pin_count is 0; otherwise it returns true and takes
\* exactly 1 off that pin_count; pin_count is never negative.
UnpinEffect(p) ==
  LET hit == Find(page_table, p)
      f == hit.value
  IN IF ~hit.found \/ pages[f].pin_count = 0
     THEN ~ret'.ok /\ UNCHANGED pool
     ELSE /\ ret'.ok
          /\ pages'[f].pin_count = pages[f].pin_count - 1
          /\ \A g \in Frames \ {f} : pages'[g] = pages[g]

UnpinContract ==
  /\ [](\A f \in Frames : pages[f].pin_count >= 0)
  /\ [][\A p \in PageIds, d \in BOOLEAN : UnpinPage(p, d) => UnpinEffect(p)]_vars

\* unpin_page has just refused a mapped page whose pin_count is 0.
UnpinRefusedAtZero ==
  ret.op = "unpin" /\ ~ret.ok /\ ret.frame # -1 /\ pages[ret.frame].pin_count = 0

\* ---------------------------------------------------------------------------
\* Claims about the hash table, under SpecEHM.
Slots(t) == 0 .. (Len(t.dir) - 1)

LocalDepth(t, i) == t.buckets[t.dir[i + 1]].depth

Keys(t) == { e.key : e \in Entries(t) }

\* C11: after any sequence of inserts and removes, find(key) returns the
\* value of the most recent insert of that key that no remove followed, and
\* reports not-found otherwise.
FindReturnsLastInsert == ret.op = "find" => ret.result = ref[ret.key]

\* C12: an insert of a new key into a full bucket keeps splitting until the
\* key has room, so the key is in the table when insert returns.
InsertMakesRoom == ret.op = "insert" => Find(page_table, ret.key).found

\* C13: an insert of a key that is already present overwrites its value in
\* place, also when the owning bucket is at capacity, and leaves the number
\* of keys, the global depth and the number of buckets as they were.
OverwriteInPlace ==
  [][(ret'.op = "insert" /\ Find(page_table, ret'.key).found)
       => /\ Find(page_table', ret'.key) = Present(ret'.value)
          /\ Cardinality(Entries(page_table')) = Cardinality(Entries(page_table))
          /\ page_table'.global_depth = page_table.global_depth
          /\ page_table'.num_buckets = page_table.num_buckets]_vars

\* C20: after every insert and remove the directory has 2^global_depth
\* slots, no local depth exceeds the global depth, two slots share a bucket
\* exactly when their low local_depth bits agree (the slots of a bucket are
\* those that agree with one of them in these bits), every stored key is in the
\* bucket its slot points to, no bucket holds more than BucketSize pairs and
\* num_buckets is the number of distinct buckets.
DirectoryInvariants ==
  LET t == page_table
  IN /\ Len(t.dir) = Pow2(t.global_depth)
     /\ \A i \in Slots(t) : LocalDepth(t, i) <= t.global_depth
     /\ \A b \in { t.dir[i + 1] : i \in Slots(t) } :
          LET own == { i \in Slots(t) : t.dir[i + 1] = b }
              one == CHOOSE i \in own : TRUE
              m == Pow2(t.buckets[b].depth)
          IN own = { j \in Slots(t) : j % m = one % m }
     /\ \A b \in 1 .. Len(t.buckets) : \A n \in 1 .. Len(t.buckets[b].list) :
          t.dir[IndexOf(t, t.buckets[b].list[n].key) + 1] = b
     /\ \A b \in 1 .. Len(t.buckets) : Len(t.buckets[b].list) <= BucketSize
     /\ t.num_buckets = Cardinality({ t.dir[i + 1] : i \in Slots(t) })

\* A split that doubled the directory and one that only redirected slots
\* have both happened (every split adds a bucket, only a doubling one adds to
\* the global depth), and an insert has just returned.
SplitBothWays ==
  /\ ret.op = "insert"
  /\ page_table.global_depth >= 2
  /\ page_table.num_buckets > page_table.global_depth + 1
  /\ \E i \in Slots(page_table) : LocalDepth(page_table, i) < page_table.global_depth

\* ---------------------------------------------------------------------------
\* Claims about the replacer, under SpecLKR.
EvictableAt(r) == { i \in 1 .. Len(r.list) : r.list[i].is_evictable }

EvictableFrames(r) == { r.list[i].value : i \in EvictableAt(r) }

Accesses(f) == Len(ref.hist[f])

\* Time of the k-th most recent access of a frame with at least k accesses.
KthBack(f, k) == ref.hist[f][Len(ref.hist[f]) - k + 1]

FirstAccess(f) == ref.hist[f][1]

LastAccess(f) == ref.hist[f][Len(ref.hist[f])]

\* C14: evict returns a frame exactly when some tracked frame is flagged
\* evictable; the frame it returns was tracked and evictable, is the
\* evictable node nearest the tail, and is untracked afterwards; when it
\* fails the replacer is unchanged.
EvictContract ==
  [][ret'.op = "evict"
       => IF EvictableAt(replacer) = {}
          THEN ~ret'.ok /\ replacer' = replacer
          ELSE LET i == CHOOSE j \in EvictableAt(replacer) :
                          \A h \in EvictableAt(replacer) : h <= j
               IN /\ ret'.ok
                  /\ ret'.frame = replacer.list[i].value
                  /\ Tracked(replacer, ret'.frame)
                  /\ ~Tracked(replacer', ret'.frame)]_vars

\* An evict has passed over a non-evictable node at the tail and taken an
\* evictable one nearer the head.
EvictSkippedPinned ==
  /\ ret.op = "evict"
  /\ ret.ok
  /\ replacer.list # <<>>
  /\ ~replacer.list[Len(replacer.list)].is_evictable
  /\ ref.last # <<>>
  /\ LastAccess(replacer.list[Len(replacer.list)].value) < ref.last[1]

\* C15: for k > 1, when some evictable frame has fewer than k recorded
\* accesses, evict never returns a frame that has k of them.
HistoryBeforeFull ==
  [][(/\ ret'.op = "evict"
      /\ ret'.ok
      /\ replacer.k > 1
      /\ \E f \in EvictableFrames(replacer) : Accesses(f) < replacer.k)
       => Accesses(ret'.frame) < replacer.k]_vars

\* An evict took a frame with fewer than k accesses and left an evictable
\* frame with k accesses or more in place.
FullHistorySpared ==
  /\ ret.op = "evict"
  /\ ret.ok
  /\ replacer.k > 1
  /\ ref.last # <<>>
  /\ Len(ref.last) < replacer.k
  /\ \E f \in EvictableFrames(replacer) : Accesses(f) >= replacer.k

\* C16: with k = 1 the replacer is a classic LRU: evict returns the
\* evictable frame whose most recent access is the oldest, and fails when no
\* frame is evictable.
ClassicLRU ==
  [][(ret'.op = "evict" /\ replacer.k = 1)
       => IF EvictableFrames(replacer) = {}
          THEN ~ret'.ok
          ELSE /\ ret'.ok
               /\ ret'.frame \in EvictableFrames(replacer)
               /\ \A f \in EvictableFrames(replacer) :
                    LastAccess(ret'.frame) <= LastAccess(f)]_vars

\* With k = 1 an evict took a frame that was accessed more than once and
\* left an evictable frame that had entered the replacer before it.
LRUNotFIFO ==
  /\ ret.op = "evict"
  /\ ret.ok
  /\ replacer.k = 1
  /\ Len(ref.last) >= 2
  /\ \E f \in EvictableFrames(replacer) : FirstAccess(f) < ref.last[1]

\* C17: when every evictable frame has at least k accesses, evict returns
\* the one whose k-th most recent access is the earliest.
KthAccessTieBreak ==
  [][(/\ ret'.op = "evict"
      /\ ret'.ok
      /\ \A f \in EvictableFrames(replacer) : Accesses(f) >= replacer.k)
       => \A f \in EvictableFrames(replacer) :
            KthBack(ret'.frame, replacer.k) <= KthBack(f, replacer.k)]_vars

\* C18: when every evictable frame has fewer than k accesses, evict returns
\* the one with the earliest access time, for every k (read either as the
\* earliest first access or as the earliest most recent access).
EarliestAccessTieBreak ==
  [][(/\ ret'.op = "evict"
      /\ ret'.ok
      /\ \A f \in EvictableFrames(replacer) : Accesses(f) < replacer.k)
       => \/ \A f \in EvictableFrames(replacer) :
               FirstAccess(ret'.frame) <= FirstAccess(f)
          \/ \A f \in EvictableFrames(replacer) :
               LastAccess(ret'.frame) <= LastAccess(f)]_vars

\* ---------------------------------------------------------------------------
\* C19 (under Spec): every frame that hosts a valid, mapped page has a node
\* in the replacer, and that node is evictable when the frame's pin_count
\* is 0.
MappedFrameTracked ==
  \A f \in Frames :
    (Valid(f) /\ Find(page_table, pages[f].page_id) = Present(f))
      => /\ Tracked(replacer, f)
         /\ pages[f].pin_count = 0
              => replacer.list[NodeIndex(replacer, f)].is_evictable

\* ---------------------------------------------------------------------------
\* C21 (under SpecLKR): the tracked count equals the number of nodes and
\* never exceeds num_frames, and size() equals the number of tracked frames
\* whose evictable flag is true; record_access of an untracked frame adds a
\* non-evictable node and leaves size() unchanged; set_evictable on an
\* untracked frame changes nothing.
CountersExact ==
  /\ replacer.curr_size = Len(replacer.list)
  /\ replacer.curr_size <= replacer.replacer_size
  /\ Size(replacer) = Cardinality(EvictableAt(replacer))

CountersMatch ==
  /\ []CountersExact
  /\ [][(ret'.op = "record_access" /\ ~Tracked(replacer, ret'.frame))
          => /\ Tracked(replacer', ret'.frame)
             /\ ~replacer'.list[NodeIndex(replacer', ret'.frame)].is_evictable
             /\ Size(replacer') = Size(replacer)]_vars
  /\ [][(ret'.op = "set_evictable" /\ ~Tracked(replacer, ret'.frame))
          => replacer' = replacer]_vars

\* ---------------------------------------------------------------------------
\* Scenario S4, under SpecScript.
AfterS4 == ref = <<0, 4, 16>>

AllFound == \A key \in {0, 4, 16} : Find(page_table, key).found

\* C22 as stated: inserting 0, 4, 16 into an empty table with bucket size 2
\* and identity hash ends with all three keys findable, global_depth >= 2 and
\* num_buckets = 2.
S4TwoBuckets ==
  AfterS4 => /\ AllFound
             /\ page_table.global_depth >= 2
             /\ page_table.num_buckets = 2

\* C22 as amended: the same run ends with all three keys findable,
\* global_depth >= 2 and num_buckets = 4.
S4FourBuckets ==
  AfterS4 => /\ AllFound
             /\ page_table.global_depth >= 2
             /\ page_table.num_buckets = 4

\* The third insert of the scenario has returned.
S4Done == AfterS4 /\ ret.op = "insert" /\ ret.key = 16

\* ---------------------------------------------------------------------------
\* C24 (under Spec): flush_all changes only disk contents and dirty flags:
\* every frame keeps its page_id and pin_count, the page table, the free
\* list and the replacer stay as they were, and no uncached page is brought
\* into the pool.
FlushAllFrameEffect ==
  [][ret'.op = "flush_all"
       => /\ \A f \in Frames : /\ pages'[f].page_id = pages[f].page_id
                               /\ pages'[f].pin_count = pages[f].pin_count
          /\ page_table' = page_table
          /\ free_list' = free_list
          /\ replacer' = replacer
          /\ \A p \in PageIds : Mapped(p)' => Mapped(p)]_vars
\* ================================================ hash table under threads
\* Threads call the table's public methods.  A call is taken apart at the
\* points where it touches latch_: what a method does between taking the
\* latch and giving it up is one step, since no other thread can see in
\* between except through GetGlobalDepth and GetLocalDepth, which take no
\* latch at all.
NumThreads == 2

Threads == 1 .. NumThreads

ThreadKeys == {0, 2, 4}

Latched == {"insert", "find", "remove", "num_buckets"}

Unlatched == {"global_depth", "local_depth"}

Idle == [at |-> "idle", op |-> "none", key |-> -1]

InitThreads ==
  /\ PoolIdle
  /\ replacer = NewReplacer
  /\ page_table = NewTable
  /\ ref = <<>>
  /\ pc = [t \in Threads |-> Idle]
  /\ latch = 0
  /\ ret = [thread |-> 0, op |-> "init", ok |-> TRUE, value |-> -1]

\* What a call may be given: a key for Insert, Find and Remove, a slot of
\* the directory as it is for GetLocalDepth (the directory never shrinks).
Arguments(op) ==
  CASE op \in {"insert", "find", "remove"} -> ThreadKeys
    [] op = "local_depth" -> Slots(page_table)
    [] OTHER -> {-1}

\* Thread t enters a public method.
Call(t, op, key) ==
  /\ pc[t].at = "idle"
  /\ key \in Arguments(op)
  /\ pc' = [pc EXCEPT ![t] = [at |-> IF op \in Latched THEN "lock" ELSE "read",
                              op |-> op, key |-> key]]
  /\ UNCHANGED <<pages, free_list, page_table, replacer, next_page_id, disk, ret,
                 owed, ref, latch>>

\* The scoped_lock at the top of Insert, Find, Remove and GetNumBuckets:
\* the thread goes on once the latch is free.
Acquire(t) ==
  /\ pc[t].at = "lock"
  /\ latch = 0
  /\ latch' = t
  /\ pc' = [pc EXCEPT ![t].at = "body"]
  /\ UNCHANGED <<pages, free_list, page_table, replacer, next_page_id, disk, ret,
                 owed, ref>>

\* The method leaves: its scoped_lock gives the latch up.
Return(t, ok, value) ==
  /\ latch' = 0
  /\ pc' = [pc EXCEPT ![t] = Idle]
  /\ ret' = [thread |-> t, op |-> pc[t].op, ok |-> ok, value |-> value]

\* The method's work under the latch.  Insert, Find and Remove do it and
\* leave; GetNumBuckets calls GetNumBucketsInternal with the latch held.
Body(t) ==
  /\ pc[t].at = "body"
  /\ latch = t
  /\ CASE pc[t].op = "insert" ->
            /\ page_table' = Insert(page_table, pc[t].key, 0)
            /\ Return(t, TRUE, -1)
       [] pc[t].op = "find" ->
            /\ page_table' = page_table
            /\ Return(t, Find(page_table, pc[t].key).found,
                      Find(page_table, pc[t].key).value)
       [] pc[t].op = "remove" ->
            /\ page_table' = Remove(page_table, pc[t].key)
            /\ Return(t, Find(page_table, pc[t].key).found, -1)
       [] pc[t].op = "num_buckets" ->
            /\ pc' = [pc EXCEPT ![t].at = "relock"]
            /\ UNCHANGED <<page_table, latch, ret>>
  /\ UNCHANGED <<pages, free_list, replacer, next_page_id, disk, owed, ref>>

\* The scoped_lock of GetNumBucketsInternal, on the latch its caller holds.
\* Locking a std::mutex the thread already owns is undefined: the thread
\* hangs in lock(), or lock() throws and the call is left by exception with
\* the caller's lock undone.
Relock(t) ==
  /\ pc[t].at = "relock"
  /\ latch = t
  /\ \E outcome \in {"hangs", "throws"} :
       IF outcome = "hangs"
         THEN /\ pc' = [pc EXCEPT ![t].at = "blocked"]
              /\ UNCHANGED <<latch, ret>>
         ELSE Return(t, FALSE, -1)
  /\ UNCHANGED <<pages, free_list, page_table, replacer, next_page_id, disk, owed,
                 ref>>

\* The table an Insert that holds the latch is turning page_table into.
Writing ==
  IF \E u \in Threads : pc[u].at = "body" /\ pc[u].op = "insert"
    THEN LET u == CHOOSE v \in Threads : pc[v].at = "body" /\ pc[v].op = "insert"
         IN  Insert(page_table, pc[u].key, 0)
    ELSE page_table

\* GetGlobalDepth and GetLocalDepth read without the latch.  While an Insert
\* is splitting, the read races with its writes and sees any depth between
\* the one before and the one after.
Read(t) ==
  /\ pc[t].at = "read"
  /\ LET before == IF pc[t].op = "global_depth" THEN page_table.global_depth
                   ELSE LocalDepth(page_table, pc[t].key)
         after == IF pc[t].op = "global_depth" THEN Writing.global_depth
                  ELSE LocalDepth(Writing, pc[t].key)
     IN  \E value \in before .. after :
           /\ pc' = [pc EXCEPT ![t] = Idle]
           /\ ret' = [thread |-> t, op |-> pc[t].op, ok |-> TRUE, value |-> value]
  /\ UNCHANGED <<pages, free_list, page_table, replacer, next_page_id, disk, owed,
                 ref, latch>>

\* A thread that is in a call takes its next step.
Step(t) == Acquire(t) \/ Body(t) \/ Relock(t) \/ Read(t)

NextThreads ==
  \E t \in Threads :
    \/ \E op \in Latched \cup Unlatched, key \in ThreadKeys \cup Slots(page_table) \cup {-1} :
         Call(t, op, key)
    \/ Step(t)

SpecThreads == InitThreads /\ [][NextThreads]_vars

\* A thread in a call keeps running, and a thread waiting for a latch that
\* is freed again and again gets it in the end; nothing makes a thread start
\* a call.
FairSpecThreads ==
  /\ SpecThreads
  /\ \A t \in Threads :
       /\ SF_vars(Acquire(t))
       /\ WF_vars(Body(t) \/ Relock(t) \/ Read(t))

\* ---------------------------------------------------------------------------
\* Under FairSpecThreads.
\* A thread that is about to lock the latch does not hold it.
NoRelock == \A t \in Threads : pc[t].at \in {"lock", "relock"} => latch # t

\* A thread that is in no call does not hold the latch.
LatchReleased == \A t \in Threads : pc[t].at = "idle" => latch # t

\* A call that was entered is left.
EveryCallReturns == \A t \in Threads : (pc[t].at # "idle") ~> (pc[t].at = "idle")

\* C23: every call of insert, find, remove, global_depth, local_depth and
\* num_buckets, by any thread, returns in the end and leaves the table latch
\* released: no thread comes to lock the latch while it already holds it, so
\* num_buckets never hangs.
LatchDiscipline == []NoRelock /\ []LatchReleased /\ EveryCallReturns

====
